---- MODULE Spec2Model ----
(***************************************************************************)
(* A model of src/src/diffusers/image_processor.py: VaeImageProcessor and  *)
(* VaeImageProcessorLDM3D.  Every public method is a synchronous call on a *)
(* stateless object, so a call is one action: it reads the configuration   *)
(* and its arguments and leaves its outcome (returned value, raised        *)
(* exception, emitted warnings) in the state.                              *)
(*                                                                         *)
(* Numbers held by arrays and tensors are exact rationals <<n, d>> (d > 0, *)
(* lowest terms).  Arrays and tensors are records [shape, data] with the   *)
(* data in row-major order, as numpy and torch lay them out.               *)
(***************************************************************************)
EXTENDS Integers, Sequences, FiniteSets, TLC

VARIABLES config, pc, op, arg, ret, chain

vars == <<config, pc, op, arg, ret, chain>>

\* ------------------------------------------------------------------ bounds

\* largest vae_scale_factor a configuration takes
MaxStride == 2
\* largest height or width of an image, array or tensor (and of a request)
MaxDim == 3
\* most calls of preprocess chained on one another's output
MaxChain == 1

\* ------------------------------------------------------- exact rationals

Abs(n) == IF n < 0 THEN -n ELSE n

RECURSIVE GCD(_, _)
GCD(a, b) == IF b = 0 THEN a ELSE GCD(b, a % b)

Rat(n, d) == LET g == GCD(Abs(n), d) IN <<n \div g, d \div g>>

RLess(x, y) == x[1] * y[2] < y[1] * x[2]

RAdd(x, y) == Rat(x[1] * y[2] + y[1] * x[2], x[2] * y[2])

RMul(x, y) == Rat(x[1] * y[1], x[2] * y[2])

RMin(x, y) == IF RLess(y, x) THEN y ELSE x

RMax(x, y) == IF RLess(x, y) THEN y ELSE x

\* ------------------------------------------------- arrays and tensors

RECURSIVE Numel(_)
Numel(shape) == IF shape = <<>> THEN 1 ELSE Head(shape) * Numel(Tail(shape))

RECURSIVE FlatData(_)
FlatData(arrays) ==
    IF arrays = <<>> THEN <<>> ELSE Head(arrays).data \o FlatData(Tail(arrays))

RECURSIVE SumDim0(_)
SumDim0(arrays) ==
    IF arrays = <<>> THEN 0 ELSE Head(arrays).shape[1] + SumDim0(Tail(arrays))

MapData(f(_), a) == [a EXCEPT !.data = [p \in 1..Len(a.data) |-> f(a.data[p])]]

\* the least value of a sequence of values
SeqMin(s) ==
    LET vals == { s[p] : p \in 1..Len(s) }
    IN  CHOOSE v \in vals : \A u \in vals : ~RLess(u, v)

\* a[i] of an array or tensor: the i-th (1-based) slice along axis 0
Item(a, i) ==
    LET n == Numel(Tail(a.shape))
    IN  [shape |-> Tail(a.shape), data |-> SubSeq(a.data, (i - 1) * n + 1, i * n)]

\* numpy's transpose / torch's permute of a 4-D array; perm is 1-based
Permute4(a, perm) ==
    LET s == a.shape
        t == [i \in 1..4 |-> s[perm[i]]]
        src(q) ==
            LET o == <<q \div (t[2] * t[3] * t[4]), (q \div (t[3] * t[4])) % t[2],
                       (q \div t[4]) % t[3], q % t[4]>>
                m == [j \in 1..4 |-> o[CHOOSE i \in 1..4 : perm[i] = j]]
            IN  ((m[1] * s[2] + m[2]) * s[3] + m[3]) * s[4] + m[4]
    IN  [shape |-> t, data |-> [p \in 1..Len(a.data) |-> a.data[src(p - 1) + 1]]]

\* ------------------------------------------------------- configuration

Configs ==
    [do_resize : BOOLEAN, vae_scale_factor : 1..MaxStride,
     do_normalize : BOOLEAN, do_convert_rgb : BOOLEAN]

\* an optional argument: <<>> when it is None, <<v>> when it is v
None == <<>>

NoArg == [none |-> TRUE]

Init ==
    /\ config \in Configs
    /\ pc = "idle"
    /\ op = "init"
    /\ arg = NoArg
    /\ ret = NoArg
    /\ chain = <<>>

\* ---------------------------------------------------------- PIL images

Modes == {"L", "RGB", "RGBA"}

Bands(mode) == CASE mode = "L" -> 1 [] mode = "RGB" -> 3 [] mode = "RGBA" -> 4

\* the images handed in are of one colour: every pixel holds px
Pixel(mode, shade) ==
    SubSeq(<<shade, 255 - shade, 102, 204>>, 1, Bands(mode))

Shades == {51, 255}

Images ==
    { [type |-> "pil", mode |-> m, width |-> w, height |-> h, px |-> Pixel(m, k)] :
        m \in Modes, w \in 1..MaxDim, h \in 1..MaxDim, k \in Shades }

Requests == {None} \cup { <<v>> : v \in 0..(MaxDim + 1) }

\* image.convert("RGB")
convert_to_rgb(image) ==
    [image EXCEPT !.mode = "RGB",
                  !.px = IF image.mode = "L" THEN <<image.px[1], image.px[1], image.px[1]>>
                         ELSE SubSeq(image.px, 1, 3)]

\* a rounding to the multiple above instead of the one below
RoundUpToMultiple(x, s) == x + ((s - (x % s)) % s)

\* x - x % vae_scale_factor
FloorToMultiple(x, s) == x - (x % s)

\* the (width, height) handed to image.resize
resize_size(cfg, image, height, width) ==
    LET h == IF height = None THEN image.height ELSE height[1]
        w == IF width = None THEN image.width ELSE width[1]
    IN  <<FloorToMultiple(w, cfg.vae_scale_factor), FloorToMultiple(h, cfg.vae_scale_factor)>>

\* VaeImageProcessor.resize.  PIL refuses a size with a dimension below 1
\* ("height and width must be > 0"); resampling an image of one colour
\* gives that colour.
resize(cfg, image, height, width) ==
    LET size == resize_size(cfg, image, height, width)
    IN  IF size[1] < 1 \/ size[2] < 1
        THEN [err |-> "PILValueError", size |-> size]
        ELSE [err |-> "none", size |-> size,
              image |-> [image EXCEPT !.width = size[1], !.height = size[2]]]

\* ------------------------------------------------- preprocess inputs

\* the values an array or tensor is filled with, from its lowest one up
Ramp(lo, n) == [p \in 1..n |-> RAdd(lo, Rat((p - 1) % 3, 4))]

Lows == {<<-1, 1>>, <<0, 1>>, <<1, 2>>}

Chans == {1, 3, 4}

Batches == {1, 2}

Filled(type, shape, lo) ==
    [type |-> type, shape |-> shape, data |-> Ramp(lo, Numel(shape))]

\* numpy arrays: (H,W), (H,W,C) or (N,H,W,C)
ArrayShapes ==
    { <<h, w>> : h \in 1..MaxDim, w \in 1..MaxDim }
    \cup { <<h, w, c>> : h \in 1..MaxDim, w \in 1..MaxDim, c \in Chans }
    \cup { <<n, h, w, c>> : n \in Batches, h \in 1..MaxDim, w \in 1..MaxDim, c \in Chans }

\* torch tensors: (H,W), (C,H,W) or (N,C,H,W)
TensorShapes ==
    { <<h, w>> : h \in 1..MaxDim, w \in 1..MaxDim }
    \cup { <<c, h, w>> : c \in Chans, h \in 1..MaxDim, w \in 1..MaxDim }
    \cup { <<n, c, h, w>> : n \in Batches, c \in Chans, h \in 1..MaxDim, w \in 1..MaxDim }

Arrays == { Filled("np", s, lo) : s \in ArrayShapes, lo \in Lows }

Tensors == { Filled("pt", s, lo) : s \in TensorShapes, lo \in Lows }

\* an object of a type preprocess does not support (a string, say)
Other == [type |-> "str"]

supported_formats == {"pil", "np", "pt"}

\* numpy's view of an object: np.array(x)
AsArray(x) ==
    IF x.type = "pil"
    THEN LET c == Len(x.px)
         IN  [shape |-> IF x.mode = "L" THEN <<x.height, x.width>>
                        ELSE <<x.height, x.width, c>>,
              data |-> [p \in 1..(x.height * x.width * c) |-> <<x.px[((p - 1) % c) + 1], 1>>]]
    ELSE [shape |-> x.shape, data |-> x.data]

\* ---------------------------------------------- conversion primitives

\* np.stack / torch.stack along a new axis 0: the items have one shape
CanStack(arrays) == \A i \in 1..Len(arrays) : arrays[i].shape = arrays[1].shape

Stack(arrays) ==
    [shape |-> <<Len(arrays)>> \o arrays[1].shape, data |-> FlatData(arrays)]

\* np.concatenate / torch.cat along axis 0: the items agree on the other axes
CanConcat(arrays) ==
    \A i \in 1..Len(arrays) : Tail(arrays[i].shape) = Tail(arrays[1].shape)

Concat(arrays) ==
    [shape |-> <<SumDim0(arrays)>> \o Tail(arrays[1].shape), data |-> FlatData(arrays)]

\* np.array(image).astype(np.float32) / 255.0 of every image
pil_to_numpy_items(images) ==
    [i \in 1..Len(images) |->
        MapData(LAMBDA v : RMul(v, <<1, 255>>), AsArray(images[i]))]

\* images[..., None] of a 3-D array, then transpose(0, 3, 1, 2)
numpy_to_pt(images) ==
    LET a == IF Len(images.shape) = 3
             THEN [images EXCEPT !.shape = images.shape \o <<1>>]
             ELSE images
    IN  Permute4(a, <<1, 4, 2, 3>>)

\* images.cpu().permute(0, 2, 3, 1).float().numpy()
pt_to_numpy(images) == Permute4(images, <<1, 3, 4, 2>>)

\* 2.0 * images - 1.0
normalize(images) ==
    MapData(LAMBDA v : RAdd(RMul(<<2, 1>>, v), <<-1, 1>>), images)

\* (images / 2 + 0.5).clamp(0, 1)
denormalize(images) ==
    MapData(LAMBDA v : RMin(RMax(RAdd(RMul(v, <<1, 2>>), <<1, 2>>), <<0, 1>>), <<1, 1>>),
            images)

\* ------------------------------------------ VaeImageProcessor.preprocess

NoImage == [shape |-> <<>>, data |-> <<>>]

\* a call that raised e after entering the given branch
Raise(e, branch) ==
    [err |-> e, branch |-> branch, latent |-> FALSE, warned |-> FALSE,
     batched |-> NoImage, image |-> NoImage]

RECURSIVE FirstError(_)
FirstError(errs) ==
    IF errs = <<>> THEN "none"
    ELSE IF Head(errs) # "none" THEN Head(errs) ELSE FirstError(Tail(errs))

\* self.resize(i, height, width) of one list element.  An array or a tensor
\* has no height or width attribute, and its own resize method takes no
\* resample keyword.
resize_item(cfg, i, height, width) ==
    IF i.type = "pil" THEN resize(cfg, i, height, width)
    ELSE IF height = None \/ width = None THEN [err |-> "AttributeError"]
    ELSE [err |-> "TypeError"]

\* a divisibility check that fails only when both dimensions are off
size_not_divisible_both(cfg, t) ==
    /\ cfg.do_resize
    /\ t.shape[3] % cfg.vae_scale_factor # 0
    /\ t.shape[4] % cfg.vae_scale_factor # 0

\* height % vae_scale_factor != 0 or width % vae_scale_factor != 0, read
\* from the (N, C, H, W) shape, when do_resize is set
size_not_divisible(cfg, t) ==
    /\ cfg.do_resize
    /\ \/ t.shape[3] % cfg.vae_scale_factor # 0
       \/ t.shape[4] % cfg.vae_scale_factor # 0

\* a range test that also takes a minimum of 0 for the legacy range
nonpositive_range(t) == ~RLess(<<0, 1>>, SeqMin(t.data))

\* image.min() < 0
negative_range(t) == RLess(SeqMin(t.data), <<0, 1>>)

\* a range handling that never overrides do_normalize
range_step_no_override(cfg, branch, t) ==
    [err |-> "none", branch |-> branch, latent |-> FALSE,
     warned |-> negative_range(t), batched |-> t,
     image |-> IF cfg.do_normalize THEN normalize(t) ELSE t]

\* the range handling and the normalization that end preprocess
range_step(cfg, branch, t) ==
    LET do_normalize == IF negative_range(t) THEN FALSE ELSE cfg.do_normalize
    IN  [err |-> "none", branch |-> branch, latent |-> FALSE,
         warned |-> negative_range(t), batched |-> t,
         image |-> IF do_normalize THEN normalize(t) ELSE t]

\* the conversion to RGB and the resize of the branch of PIL images: an
\* array or a tensor in the list has no convert method
pil_sized(cfg, images, height, width) ==
    LET converted == IF cfg.do_convert_rgb
                     THEN [i \in 1..Len(images) |->
                              IF images[i].type = "pil" THEN convert_to_rgb(images[i])
                              ELSE images[i]]
                     ELSE images
        resized == [i \in 1..Len(images) |-> resize_item(cfg, converted[i], height, width)]
        errs == [i \in 1..Len(images) |-> resized[i].err]
    IN  IF cfg.do_convert_rgb /\ \E i \in 1..Len(images) : images[i].type # "pil"
        THEN [err |-> "AttributeError"]
        ELSE IF ~cfg.do_resize THEN [err |-> "none", images |-> converted]
        ELSE IF FirstError(errs) # "none" THEN [err |-> FirstError(errs)]
        ELSE [err |-> "none", images |-> [i \in 1..Len(images) |-> resized[i].image]]

\* the branch of a list whose first element is a PIL image
preprocess_pil(cfg, images, height, width) ==
    LET sized == pil_sized(cfg, images, height, width)
        arrays == pil_to_numpy_items(sized.images)
    IN  IF sized.err # "none" THEN Raise(sized.err, "pil")
        ELSE IF ~CanStack(arrays) THEN Raise("ShapeError", "pil")
        ELSE range_step(cfg, "pil", numpy_to_pt(Stack(arrays)))

\* the branch of a list whose first element is a numpy array
preprocess_np(cfg, images) ==
    LET arrays == [i \in 1..Len(images) |-> AsArray(images[i])]
        concat == Len(arrays[1].shape) = 4
        joined == IF concat THEN Concat(arrays) ELSE Stack(arrays)
    IN  IF (concat /\ ~CanConcat(arrays)) \/ (~concat /\ ~CanStack(arrays))
        THEN Raise("ShapeError", "np")
        ELSE IF Len(joined.shape) \notin {3, 4} THEN Raise("ShapeError", "np")
        ELSE IF size_not_divisible(cfg, numpy_to_pt(joined))
        THEN Raise("SizeNotDivisible", "np")
        ELSE range_step(cfg, "np", numpy_to_pt(joined))

\* a latent test that takes 3 channels for the latent convention
is_latent_rgb(t) == t.shape[2] = 3

\* channel == 4, read from the (N, C, H, W) shape
is_latent(t) == t.shape[2] = 4

\* the branch of a list whose first element is a torch tensor
preprocess_pt(cfg, images) ==
    LET tensors == [i \in 1..Len(images) |-> AsArray(images[i])]
        concat == Len(tensors[1].shape) = 4
        joined == IF concat THEN Concat(tensors) ELSE Stack(tensors)
    IN  IF \E i \in 1..Len(images) : images[i].type # "pt"
        THEN Raise("TypeError", "pt")
        ELSE IF (concat /\ ~CanConcat(tensors)) \/ (~concat /\ ~CanStack(tensors))
        THEN Raise("ShapeError", "pt")
        ELSE IF Len(joined.shape) # 4 THEN Raise("ShapeError", "pt")
        ELSE IF is_latent(joined)
        THEN [err |-> "none", branch |-> "pt", latent |-> TRUE, warned |-> FALSE,
              batched |-> joined, image |-> joined]
        ELSE IF size_not_divisible(cfg, joined) THEN Raise("SizeNotDivisible", "pt")
        ELSE range_step(cfg, "pt", joined)

\* isinstance(image, supported_formats), or a list of such objects
accepted(image) ==
    \/ image.type \in supported_formats
    \/ /\ image.type = "list"
       /\ \A i \in 1..Len(image.items) : image.items[i].type \in supported_formats

\* VaeImageProcessor.preprocess.  The message of the ValueError of a
\* rejected input joins the supported types, which are classes and not
\* strings, so building it raises TypeError; image[0] of an empty list
\* raises IndexError.
preprocess(cfg, image, height, width) ==
    LET images == IF image.type = "list" THEN image.items ELSE <<image>>
    IN  IF ~accepted(image) THEN Raise("TypeError", "validation")
        ELSE IF images = <<>> THEN Raise("IndexError", "validation")
        ELSE CASE images[1].type = "pil" -> preprocess_pil(cfg, images, height, width)
               [] images[1].type = "np" -> preprocess_np(cfg, images)
               [] images[1].type = "pt" -> preprocess_pt(cfg, images)

Retyped(x, type) == [type |-> type, shape |-> AsArray(x).shape, data |-> AsArray(x).data]

\* x with its last dimension one larger
Wider(x) ==
    IF x.type = "pil" THEN [x EXCEPT !.width = x.width + 1]
    ELSE Filled(x.type, [x.shape EXCEPT ![Len(x.shape)] = @ + 1], x.data[1])

\* the objects that follow x in a list: the same kind of object, the same
\* content under another type, another shape, an unsupported object
Mates(x) ==
    IF x.type = "str" THEN {x}
    ELSE {x, Other, Wider(x)} \cup { Retyped(x, t) : t \in {"np", "pt"} }

Singles == Images \cup Arrays \cup Tensors \cup {Other}

Lists ==
    {<<>>} \cup { <<x>> : x \in Singles }
    \cup UNION { { <<x, y>> : y \in Mates(x) } : x \in Singles }

PreprocessInputs == Singles \cup { [type |-> "list", items |-> l] : l \in Lists }

\* the first object of an input, if it has one
First(image) ==
    IF image.type # "list" THEN image
    ELSE IF image.items = <<>> THEN Other ELSE image.items[1]

PreRequests == {None, <<0>>, <<MaxDim>>}

Preprocess ==
    /\ pc = "idle"
    /\ \E image \in PreprocessInputs :
        \E height \in IF First(image).type = "pil" THEN PreRequests ELSE {None},
           width \in IF First(image).type = "pil" THEN PreRequests ELSE {None} :
            /\ arg' = [image |-> image, height |-> height, width |-> width]
            /\ ret' = preprocess(config, image, height, width)
    /\ op' = "preprocess"
    /\ pc' = "done"
    /\ UNCHANGED <<config, chain>>

Resize ==
    /\ pc = "idle"
    /\ \E image \in Images, height \in Requests, width \in Requests :
        /\ arg' = [image |-> image, height |-> height, width |-> width]
        /\ ret' = resize(config, image, height, width)
    /\ op' = "resize"
    /\ pc' = "done"
    /\ UNCHANGED <<config, chain>>

\* the caller takes the outcome; the processor keeps nothing of the call
Return ==
    /\ pc = "done"
    /\ pc' = "idle"
    /\ op' = "init"
    /\ arg' = NoArg
    /\ ret' = NoArg
    /\ chain' = <<>>
    /\ UNCHANGED config

\* ----------------------------------------- VaeImageProcessor.postprocess

\* numpy's round: to the nearest integer, a half to the even one
RoundHalfEven(v) ==
    LET q == v[1] \div v[2]
        r == v[1] - q * v[2]
    IN  IF 2 * r < v[2] THEN q
        ELSE IF 2 * r > v[2] THEN q + 1
        ELSE IF q % 2 = 0 THEN q ELSE q + 1

\* what astype("uint8") makes of a float outside 0..255 is up to the
\* platform: the low byte of the integer, or the nearest end of the range
Casts == {"wrap", "saturate"}

\* (v * 255).round().astype("uint8")
ToUint8(v, cast) ==
    LET r == RoundHalfEven(RMul(v, <<255, 1>>))
    IN  IF r >= 0 /\ r <= 255 THEN r
        ELSE IF cast = "wrap" THEN r % 256
        ELSE IF r < 0 THEN 0 ELSE 255

\* image[:, :, lo:hi] of an (H, W, C) array (0-based, hi exclusive)
Channels(a, lo, hi) ==
    LET c == a.shape[3]
        top == IF hi < c THEN hi ELSE c
        k == IF top > lo THEN top - lo ELSE 0
    IN  [shape |-> <<a.shape[1], a.shape[2], k>>,
         data |-> [p \in 1..(a.shape[1] * a.shape[2] * k) |->
                      a.data[((p - 1) \div k) * c + lo + ((p - 1) % k) + 1]]]

\* Image.fromarray(image.squeeze(), mode="L") of an (H, W, 1) array of
\* bytes: squeeze drops every axis of length 1; PIL reads a 1-D array as a
\* column and cannot size a 0-D one
fromarray_L(a) ==
    LET dims == SelectSeq(<<a.shape[1], a.shape[2]>>, LAMBDA d : d # 1)
    IN  IF dims = <<>> THEN [err |-> "IndexError"]
        ELSE [err |-> "none", mode |-> "L",
              width |-> IF Len(dims) = 1 THEN 1 ELSE dims[2], height |-> dims[1],
              bytes |-> a.data]

\* Image.fromarray(image) of an (H, W, C) array of bytes with C > 1
fromarray(a) ==
    IF a.shape[3] \notin {2, 3, 4} THEN [err |-> "TypeError"]
    ELSE [err |-> "none",
          mode |-> CASE a.shape[3] = 2 -> "LA" [] a.shape[3] = 3 -> "RGB"
                     [] a.shape[3] = 4 -> "RGBA",
          width |-> a.shape[2], height |-> a.shape[1], bytes |-> a.data]

\* the (N, H, W, C) array as bytes
AsBytes(images, cast) == MapData(LAMBDA v : ToUint8(v, cast), images)

\* VaeImageProcessor.numpy_to_pil of an (N, H, W, C) array
numpy_to_pil(images, cast) ==
    LET bytes == AsBytes(images, cast)
        pil_images == [i \in 1..images.shape[1] |->
                          IF images.shape[4] = 1 THEN fromarray_L(Item(bytes, i))
                          ELSE fromarray(Item(bytes, i))]
    IN  [err |-> FirstError([i \in 1..Len(pil_images) |-> pil_images[i].err]),
         images |-> pil_images]

output_types == {"latent", "pt", "np", "pil"}

\* a denormalization that handles the whole batch by its first flag
denormalize_by_first_flag(image, do_denormalize) ==
    Stack([i \in 1..image.shape[1] |->
              IF do_denormalize[1] THEN denormalize(Item(image, i)) ELSE Item(image, i)])

\* torch.stack([self.denormalize(image[i]) if do_denormalize[i] else
\* image[i] for i in range(image.shape[0])])
denormalize_items(image, do_denormalize) ==
    Stack([i \in 1..image.shape[1] |->
              IF do_denormalize[i] THEN denormalize(Item(image, i)) ELSE Item(image, i)])

\* the flags a call works with: those given, or do_normalize for each item
flags_of(cfg, image, do_denormalize) ==
    IF do_denormalize = None THEN [i \in 1..image.shape[1] |-> cfg.do_normalize]
    ELSE do_denormalize[1]

PostRaise(e, warned, output_type) ==
    [err |-> e, warned |-> warned, output_type |-> output_type,
     image |-> NoImage, result |-> None]

PostReturn(warned, output_type, image, result) ==
    [err |-> "none", warned |-> warned, output_type |-> output_type,
     image |-> image, result |-> result]

\* an output_type that is left as it is, recognized or not
not_coerced(output_type) == output_type

\* an output_type outside the recognized ones is set to "np"
coerced(output_type) == IF output_type \notin output_types THEN "np" ELSE output_type

\* VaeImageProcessor.postprocess
postprocess(cfg, image, output_type, do_denormalize, cast) ==
    LET warned == output_type \notin output_types
        type == coerced(output_type)
        flags == flags_of(cfg, image, do_denormalize)
        denormed == denormalize_items(image, flags)
        array == pt_to_numpy(denormed)
        pil == numpy_to_pil(array, cast)
    IN  IF image.type # "pt" THEN PostRaise("UnsupportedInputFormat", FALSE, output_type)
        ELSE IF type = "latent" THEN PostReturn(warned, type, NoImage, image)
        ELSE IF Len(flags) < image.shape[1] THEN PostRaise("IndexError", warned, type)
        ELSE IF type = "pt" THEN PostReturn(warned, type, denormed, denormed)
        ELSE IF type = "np" THEN PostReturn(warned, type, denormed, array)
        ELSE IF type # "pil" THEN PostReturn(warned, type, denormed, None)
        ELSE IF pil.err # "none" THEN PostRaise(pil.err, warned, type)
        ELSE PostReturn(warned, type, denormed, pil.images)

\* the tensors a model hands back: (N, C, H, W)
PostDims == {1, 2}

PostChans == {1, 3, 4, 6, 7}

PostLows == {<<-3, 2>>, <<-1, 2>>, <<1, 1>>}

PostTensors ==
    { Filled("pt", <<n, c, h, w>>, lo) :
        n \in Batches, c \in PostChans, h \in PostDims, w \in PostDims, lo \in PostLows }

\* what postprocess is handed: a tensor, or something that is none
PostInputs == PostTensors \cup {Other, Filled("np", <<1, 1, 3>>, <<0, 1>>)}

\* "numpy" stands for every string outside the recognized ones
OutputTypes == output_types \cup {"numpy"}

\* do_denormalize: None, one flag per item, a list one short, one too long
FlagLists(n) ==
    {None} \cup { <<f>> : f \in [1..n -> BOOLEAN] }
    \cup {<<[i \in 1..(n - 1) |-> TRUE]>>, <<[i \in 1..(n + 1) |-> i # 1]>>}

Postprocess ==
    /\ pc = "idle"
    /\ \E image \in PostInputs, output_type \in OutputTypes, cast \in Casts :
        \E do_denormalize \in FlagLists(IF image.type = "pt" THEN image.shape[1] ELSE 1) :
            /\ arg' = [image |-> image, output_type |-> output_type,
                       do_denormalize |-> do_denormalize]
            /\ ret' = postprocess(config, image, output_type, do_denormalize, cast)
    /\ op' = "postprocess"
    /\ pc' = "done"
    /\ UNCHANGED <<config, chain>>

\* ------------------------------------ VaeImageProcessorLDM3D.postprocess

\* a depth map read from the first two channels of the triple
rgblike_to_depthmap_low(image) ==
    IF image.shape[3] < 3 THEN [err |-> "IndexError"]
    ELSE [err |-> "none", shape |-> <<image.shape[1], image.shape[2]>>,
          data |-> [p \in 1..(image.shape[1] * image.shape[2]) |->
                       RAdd(RMul(image.data[(p - 1) * image.shape[3] + 1], <<256, 1>>),
                            image.data[(p - 1) * image.shape[3] + 2])]]

\* image[:, :, 1] * 2**8 + image[:, :, 2] of an (H, W, K) array: index 1
\* or 2 is out of bounds when K < 3
rgblike_to_depthmap(image) ==
    IF image.shape[3] < 3 THEN [err |-> "IndexError"]
    ELSE [err |-> "none", shape |-> <<image.shape[1], image.shape[2]>>,
          data |-> [p \in 1..(image.shape[1] * image.shape[2]) |->
                       RAdd(RMul(image.data[(p - 1) * image.shape[3] + 2], <<256, 1>>),
                            image.data[(p - 1) * image.shape[3] + 3])]]

\* VaeImageProcessorLDM3D.numpy_to_pil: fromarray(image[:, :, :3])
numpy_to_pil_LDM3D(images, cast) ==
    LET bytes == AsBytes(images, cast)
        pil_images == [i \in 1..images.shape[1] |->
                          IF images.shape[4] = 1 THEN fromarray_L(Item(bytes, i))
                          ELSE fromarray(Channels(Item(bytes, i), 0, 3))]
    IN  [err |-> FirstError([i \in 1..Len(pil_images) |-> pil_images[i].err]),
         images |-> pil_images]

\* VaeImageProcessorLDM3D.numpy_to_depth: 16-bit images of the depth maps
\* of the bytes of channels 3 and up
numpy_to_depth(images, cast) ==
    LET bytes == MapData(LAMBDA v : <<ToUint8(v, cast), 1>>, images)
        maps == [i \in 1..images.shape[1] |->
                    rgblike_to_depthmap(Channels(Item(bytes, i), 3, images.shape[4]))]
    IN  IF images.shape[4] = 1 THEN [err |-> "UnsupportedDepthEncoding", images |-> <<>>]
        ELSE [err |-> FirstError([i \in 1..Len(maps) |-> maps[i].err]),
              images |-> [i \in 1..Len(maps) |->
                             IF maps[i].err # "none" THEN maps[i]
                             ELSE [err |-> "none", mode |-> "I;16",
                                   width |-> maps[i].shape[2], height |-> maps[i].shape[1],
                                   bytes |-> [p \in 1..Len(maps[i].data) |->
                                                 maps[i].data[p][1]]]]]

\* np.stack([self.rgblike_to_depthmap(im[:, :, 3:]) for im in image], axis=0)
depth_maps(array) ==
    LET maps == [i \in 1..array.shape[1] |->
                    rgblike_to_depthmap(Channels(Item(array, i), 3, array.shape[4]))]
    IN  IF FirstError([i \in 1..Len(maps) |-> maps[i].err]) # "none"
        THEN [err |-> FirstError([i \in 1..Len(maps) |-> maps[i].err])]
        ELSE [err |-> "none", shape |-> <<Len(maps)>> \o maps[1].shape,
              data |-> FlatData(maps)]

\* image[:, :, :, :3] of an (N, H, W, C) array
rgb_channels(array) ==
    LET items == [i \in 1..array.shape[1] |-> Channels(Item(array, i), 0, 3)]
    IN  Stack(items)

\* VaeImageProcessorLDM3D.postprocess: the returns for latent and pt are
\* commented out, so both formats run on to the final raise
postprocess_LDM3D(cfg, image, output_type, do_denormalize, cast) ==
    LET warned == output_type \notin output_types
        type == coerced(output_type)
        flags == flags_of(cfg, image, do_denormalize)
        denormed == denormalize_items(image, flags)
        array == pt_to_numpy(denormed)
        depth == depth_maps(array)
        pil == numpy_to_pil_LDM3D(array, cast)
        pil_depth == numpy_to_depth(array, cast)
    IN  IF image.type # "pt" THEN PostRaise("UnsupportedInputFormat", FALSE, output_type)
        ELSE IF Len(flags) < image.shape[1] THEN PostRaise("IndexError", warned, type)
        ELSE IF type = "np"
        THEN IF depth.err # "none" THEN PostRaise(depth.err, warned, type)
             ELSE PostReturn(warned, type, denormed,
                             [rgb |-> rgb_channels(array),
                              depth |-> [shape |-> depth.shape, data |-> depth.data]])
        ELSE IF type = "pil"
        THEN IF pil.err # "none" THEN PostRaise(pil.err, warned, type)
             ELSE IF pil_depth.err # "none" THEN PostRaise(pil_depth.err, warned, type)
             ELSE PostReturn(warned, type, denormed,
                             [rgb |-> pil.images, depth |-> pil_depth.images])
        ELSE PostRaise("UnsupportedOutputFormat", warned, type)

PostprocessLDM3D ==
    /\ pc = "idle"
    /\ \E image \in PostInputs, output_type \in OutputTypes, cast \in Casts :
        \E do_denormalize \in FlagLists(IF image.type = "pt" THEN image.shape[1] ELSE 1) :
            /\ arg' = [image |-> image, output_type |-> output_type,
                       do_denormalize |-> do_denormalize]
            /\ ret' = postprocess_LDM3D(config, image, output_type, do_denormalize, cast)
    /\ op' = "postprocess_LDM3D"
    /\ pc' = "done"
    /\ UNCHANGED <<config, chain>>

\* ------------------------------------- VaeImageProcessorLDM3D.preprocess

\* the fixed stride of transform_depth
DepthStride == 32

\* VaeImageProcessorLDM3D.transform_depth.  An array, a tensor or a list
\* has no convert method; PIL refuses a size with a dimension below 1; and
\* 2.*im_depth - 1. multiplies a float by a PIL image, which neither type
\* supports, so an image that came through the resize raises TypeError
\* there.  No input reaches the return.
transform_depth(im_depth) ==
    IF im_depth.type # "pil" THEN [err |-> "AttributeError"]
    ELSE IF \/ FloorToMultiple(im_depth.width, DepthStride) < 1
            \/ FloorToMultiple(im_depth.height, DepthStride) < 1
    THEN [err |-> "PILValueError"]
    ELSE [err |-> "TypeError"]

DepthRaise(e, branch) ==
    [err |-> e, branch |-> branch, warned |-> FALSE, rgb |-> NoImage, depth |-> NoImage]

\* np.stack / np.concatenate of the depth list, chosen by rgb[0].ndim of
\* the rgb array that has been joined already
depth_join_np(rgb_joined, depths) ==
    IF Len(rgb_joined.shape) - 1 = 4 THEN Concat(depths) ELSE Stack(depths)

\* the steps of preprocess after transform_depth, for the image it
\* returns.  A single rgb has depth wrapped in a list with it; with a list
\* of rgb depth stays the one image, which is neither iterable nor
\* subscriptable.  The warning of a negative rgb range formats image.min(),
\* a name this method does not define.
preprocess_LDM3D_rest(cfg, rgb, depth, height, width) ==
    LET single == rgb.type \in supported_formats
        rgbs == IF single THEN <<rgb>> ELSE rgb.items
        rgb_sized == pil_sized(cfg, rgbs, height, width)
        depth_sized == pil_sized([cfg EXCEPT !.do_convert_rgb = FALSE], <<depth>>,
                                 height, width)
        rgb_arrays == IF rgbs[1].type = "pil" THEN pil_to_numpy_items(rgb_sized.images)
                      ELSE [i \in 1..Len(rgbs) |-> AsArray(rgbs[i])]
        concat == rgbs[1].type # "pil" /\ Len(rgb_arrays[1].shape) = 4
        rgb_joined == IF concat THEN Concat(rgb_arrays) ELSE Stack(rgb_arrays)
        depth_joined ==
            IF rgbs[1].type = "pil" THEN Stack(pil_to_numpy_items(depth_sized.images))
            ELSE depth_join_np(rgb_joined, <<AsArray(depth)>>)
        finish(branch, r, d) ==
            IF negative_range(r) THEN DepthRaise("NameError", branch)
            ELSE [err |-> "none", branch |-> branch, warned |-> FALSE,
                  rgb |-> IF cfg.do_normalize THEN normalize(r) ELSE r,
                  depth |-> IF cfg.do_normalize THEN normalize(d) ELSE d]
    IN  IF ~accepted(rgb) THEN DepthRaise("TypeError", "validation")
        ELSE IF rgbs = <<>> THEN DepthRaise("IndexError", "validation")
        ELSE IF rgbs[1].type = "pil"
        THEN IF rgb_sized.err # "none" THEN DepthRaise(rgb_sized.err, "pil")
             ELSE IF cfg.do_resize /\ ~single THEN DepthRaise("TypeError", "pil")
             ELSE IF depth_sized.err # "none" THEN DepthRaise(depth_sized.err, "pil")
             ELSE IF ~CanStack(rgb_arrays) THEN DepthRaise("ShapeError", "pil")
             ELSE finish("pil", numpy_to_pt(rgb_joined), numpy_to_pt(depth_joined))
        ELSE IF rgbs[1].type = "np"
        THEN IF (concat /\ ~CanConcat(rgb_arrays)) \/ (~concat /\ ~CanStack(rgb_arrays))
             THEN DepthRaise("ShapeError", "np")
             ELSE IF ~single THEN DepthRaise("TypeError", "np")
             ELSE IF Len(rgb_joined.shape) \notin {3, 4} THEN DepthRaise("ShapeError", "np")
             ELSE IF size_not_divisible(cfg, numpy_to_pt(rgb_joined))
             THEN DepthRaise("SizeNotDivisible", "np")
             ELSE finish("np", numpy_to_pt(rgb_joined), numpy_to_pt(depth_joined))
        ELSE IF \E i \in 1..Len(rgbs) : rgbs[i].type # "pt" THEN DepthRaise("TypeError", "pt")
        ELSE IF (concat /\ ~CanConcat(rgb_arrays)) \/ (~concat /\ ~CanStack(rgb_arrays))
        THEN DepthRaise("ShapeError", "pt")
        ELSE DepthRaise(IF single THEN "AttributeError" ELSE "TypeError", "pt")

\* VaeImageProcessorLDM3D.preprocess: transform_depth comes first
preprocess_LDM3D(cfg, rgb, depth, height, width) ==
    IF transform_depth(depth).err # "none"
    THEN DepthRaise(transform_depth(depth).err, "transform_depth")
    ELSE preprocess_LDM3D_rest(cfg, rgb, transform_depth(depth).image, height, width)

\* the rgb inputs: an image, an array or a tensor, alone or in a list
RgbSingles == Images \cup { x \in Arrays \cup Tensors : x.data[1] = <<0, 1>> } \cup {Other}

RgbInputs ==
    RgbSingles \cup { [type |-> "list", items |-> <<x>>] : x \in RgbSingles }
    \cup { [type |-> "list", items |-> <<x, x>>] : x \in RgbSingles }

\* the depth inputs: images below and above the fixed stride, and objects
\* that are no image
DepthInputs ==
    { [type |-> "pil", mode |-> m, width |-> w, height |-> h, px |-> Pixel(m, 51)] :
        m \in {"L", "RGB"}, w \in {MaxDim, DepthStride + 1}, h \in {MaxDim, DepthStride + 1} }
    \cup {Other, Filled("np", <<1, 1, 3>>, <<0, 1>>), Filled("pt", <<3, 1, 1>>, <<0, 1>>)}

PreprocessLDM3D ==
    /\ pc = "idle"
    /\ \E rgb \in RgbInputs, depth \in DepthInputs :
        /\ arg' = [rgb |-> rgb, depth |-> depth, height |-> None, width |-> None]
        /\ ret' = preprocess_LDM3D(config, rgb, depth, None, None)
    /\ op' = "preprocess_LDM3D"
    /\ pc' = "done"
    /\ UNCHANGED <<config, chain>>

\* the caller hands the tensor a preprocess of a tensor returned to
\* preprocess again
PreprocessAgain ==
    /\ pc = "done"
    /\ op = "preprocess"
    /\ arg.image.type = "pt"
    /\ ret.err = "none"
    /\ Len(chain) < MaxChain
    /\ chain' = Append(chain, arg.image)
    /\ arg' = [image |-> [type |-> "pt", shape |-> ret.image.shape, data |-> ret.image.data],
               height |-> None, width |-> None]
    /\ ret' = preprocess(config, arg'.image, None, None)
    /\ UNCHANGED <<config, pc, op>>

NextResize == Resize \/ Return

NextPreprocess == Preprocess \/ PreprocessAgain \/ Return

SpecResize == Init /\ [][NextResize]_vars

NextPostprocess == Postprocess \/ PostprocessLDM3D \/ Return

NextPreprocessLDM3D == PreprocessLDM3D \/ Return

SpecPreprocess == Init /\ [][NextPreprocess]_vars

SpecPostprocess == Init /\ [][NextPostprocess]_vars

SpecPreprocessLDM3D == Init /\ [][NextPreprocessLDM3D]_vars

Next == Resize \/ Preprocess \/ PreprocessAgain \/ Postprocess \/ PostprocessLDM3D
            \/ PreprocessLDM3D \/ Return

Spec == Init /\ [][Next]_vars

\* ------------------------------------------------------ resize: claims

\* the width and height the call works from: those requested, or the image's
ResizeFrom ==
    <<IF arg.width = None THEN arg.image.width ELSE arg.width[1],
      IF arg.height = None THEN arg.image.height ELSE arg.height[1]>>

\* C1: the size resize hands to the image library is, in each dimension,
\* the greatest multiple of vae_scale_factor that is not above the
\* requested (or the image's own) dimension: a multiple, not above it, less
\* than vae_scale_factor below it; a multiple stays, a dimension below
\* vae_scale_factor becomes 0.
C1_ResizeFloors ==
    op = "resize" =>
        \A d \in 1..2 :
            LET x == ResizeFrom[d]
                y == ret.size[d]
                s == config.vae_scale_factor
            IN  /\ y % s = 0
                /\ y <= x
                /\ x - y < s
                /\ (x % s = 0 => y = x)
                /\ (x < s => y = 0)

\* an image's own width above the stride and off it was floored, and a
\* requested height below the stride became 0
C1_Witness ==
    /\ op = "resize"
    /\ arg.width = None /\ arg.height # None
    /\ ResizeFrom[1] > config.vae_scale_factor
    /\ ret.size[1] < ResizeFrom[1] /\ ret.size[1] > 0
    /\ ResizeFrom[2] > 0 /\ ret.size[2] = 0

\* ------------------------------------------------- preprocess: claims

\* 2 * v - 1 of every value
Doubled(data) == [p \in 1..Len(data) |-> Rat(2 * data[p][1] - data[p][2], data[p][2])]

\* some value of the data is negative
HasNegative(data) == \E p \in 1..Len(data) : data[p][1] < 0

\* the objects of the call's input, in order
InputItems == IF arg.image.type = "list" THEN arg.image.items ELSE <<arg.image>>

\* the input is one object of the given type with 3 or 4 dimensions, or a
\* list of such objects that agree on every axis they are joined over
JoinableInput(type) ==
    /\ op = "preprocess"
    /\ InputItems # <<>>
    /\ \A i \in 1..Len(InputItems) :
        /\ InputItems[i].type = type
        /\ Len(InputItems[i].shape) = Len(InputItems[1].shape)
        /\ IF Len(InputItems[1].shape) = 4
           THEN Tail(InputItems[i].shape) = Tail(InputItems[1].shape)
           ELSE InputItems[i].shape = InputItems[1].shape

\* the batch size of the joined input
JoinedBatch ==
    IF Len(InputItems[1].shape) = 4 THEN SumDim0(InputItems) ELSE Len(InputItems)

\* the shape of an item without its batch axis
ItemShape ==
    IF Len(InputItems[1].shape) = 4 THEN Tail(InputItems[1].shape) ELSE InputItems[1].shape

\* a tensor input whose channel count is 4
LatentInput ==
    /\ JoinableInput("pt")
    /\ Len(ItemShape) = 3
    /\ ItemShape[1] = 4

\* C2: preprocess of a tensor input with 4 channels returns the joined
\* tensor, values and shape untouched (a single 4-D tensor comes back as it
\* went in), with no error and no warning, under every configuration.
C2_LatentPassthrough ==
    LatentInput =>
        /\ ret.err = "none"
        /\ ~ret.warned
        /\ ret.image.data = FlatData(InputItems)
        /\ ret.image.shape = <<JoinedBatch>> \o ItemShape
        /\ (arg.image.type = "pt" /\ Len(arg.image.shape) = 4 =>
                ret.image = [shape |-> arg.image.shape, data |-> arg.image.data])

\* a 4-channel tensor with negative values and a height off the stride
\* came back under do_normalize and do_resize
C2_Witness ==
    /\ LatentInput
    /\ config.do_normalize /\ config.do_resize
    /\ ItemShape[2] % config.vae_scale_factor # 0
    /\ HasNegative(FlatData(InputItems))
    /\ ret.err = "none"
    /\ ret.image.data = FlatData(InputItems)

\* neither a single image, array or tensor nor a non-empty list of objects
\* of one of these types
NotHomogeneous ==
    /\ op = "preprocess"
    /\ InputItems # <<>>
    /\ \/ \E i \in 1..Len(InputItems) : InputItems[i].type \notin supported_formats
       \/ \E i \in 1..Len(InputItems) : InputItems[i].type # InputItems[1].type

\* C3: every input that is not homogeneous is rejected by the validation
\* (whatever exception the rejection surfaces as) and never enters a type
\* branch.
C3_RejectsHeterogeneous ==
    NotHomogeneous => ret.err # "none" /\ ret.branch = "validation"

\* the height and width of an array or tensor input, as the caller sees them
InputHeight ==
    IF InputItems[1].type = "np" THEN ItemShape[1] ELSE ItemShape[2]

InputWidth ==
    IF InputItems[1].type = "np" THEN ItemShape[2] ELSE ItemShape[3]

\* an array input, or a tensor input whose channel count is not 4
CheckedInput ==
    \/ JoinableInput("np")
    \/ JoinableInput("pt") /\ Len(ItemShape) = 3 /\ ItemShape[1] # 4

\* C4: with do_resize, an array input or a tensor input without 4 channels
\* fails with SizeNotDivisible exactly when its height or width is no
\* multiple of vae_scale_factor; without do_resize nothing fails so, and an
\* input of images never does.
C4_SizeNotDivisible ==
    /\ CheckedInput =>
        (ret.err = "SizeNotDivisible" <=>
            /\ config.do_resize
            /\ \/ InputHeight % config.vae_scale_factor # 0
               \/ InputWidth % config.vae_scale_factor # 0)
    /\ (op = "preprocess" /\ ~config.do_resize => ret.err # "SizeNotDivisible")
    /\ (op = "preprocess" /\ InputItems # <<>> /\ InputItems[1].type = "pil" =>
            ret.err # "SizeNotDivisible")

\* an array whose height divides and whose width does not was refused
C4_Witness ==
    /\ JoinableInput("np")
    /\ config.do_resize
    /\ InputHeight % config.vae_scale_factor = 0
    /\ InputWidth % config.vae_scale_factor # 0
    /\ ret.err = "SizeNotDivisible"

\* C5: a call that reaches the range handling raises nothing; with a
\* negative minimum it warns and returns the joined values as they are,
\* whatever do_normalize is; otherwise it does not warn and returns 2x-1 of
\* them under do_normalize and the values themselves without it.
C5_RangeHandling ==
    op = "preprocess" /\ ret.batched # NoImage /\ ~ret.latent =>
        /\ ret.err = "none"
        /\ ret.image.shape = ret.batched.shape
        /\ (JoinableInput("pt") => ret.batched.data = FlatData(InputItems))
        /\ IF HasNegative(ret.batched.data)
           THEN ret.warned /\ ret.image.data = ret.batched.data
           ELSE /\ ~ret.warned
                /\ ret.image.data = IF config.do_normalize THEN Doubled(ret.batched.data)
                                    ELSE ret.batched.data

\* under do_normalize a tensor with a negative value came back as it was,
\* with the warning
C5_Witness ==
    /\ op = "preprocess" /\ ret.batched # NoImage /\ ~ret.latent
    /\ config.do_normalize
    /\ HasNegative(ret.batched.data)
    /\ ret.warned
    /\ ret.image.data = FlatData(InputItems)

\* the first call's input: a tensor without 4 channels, values in [0,1]
FirstTensorInUnitRange ==
    /\ op = "preprocess"
    /\ Len(chain) = 1
    /\ chain[1].type = "pt"
    /\ chain[1].shape[Len(chain[1].shape) - 2] # 4
    /\ \A p \in 1..Len(chain[1].data) :
        /\ ~RLess(chain[1].data[p], <<0, 1>>)
        /\ ~RLess(<<1, 1>>, chain[1].data[p])

\* C10 as stated: under do_normalize, preprocess of the tensor that
\* preprocess returned for a tensor with values in [0,1] returns that
\* tensor's values again.
C10_Idempotent ==
    FirstTensorInUnitRange /\ config.do_normalize =>
        ret.err = "none" /\ ret.image.data = arg.image.data

\* C10 as amended: that holds when the first tensor has a value below 1/2,
\* so that its normalized form has a negative one; a tensor whose values
\* all are 1/2 or more is normalized once more, to 2y-1 of the values y
\* handed back in.
C10_IdempotentBelowHalf ==
    FirstTensorInUnitRange /\ config.do_normalize =>
        /\ ret.err = "none"
        /\ IF \E p \in 1..Len(chain[1].data) : RLess(chain[1].data[p], <<1, 2>>)
           THEN ret.warned /\ ret.image.data = arg.image.data
           ELSE ~ret.warned /\ ret.image.data = Doubled(arg.image.data)

\* a tensor with values 0 .. 1/2 went through preprocess twice and the
\* second call returned what it was given
C10_Witness ==
    /\ FirstTensorInUnitRange /\ config.do_normalize
    /\ chain[1].data[1] = <<0, 1>>
    /\ arg.image.data[1] = <<-1, 1>>
    /\ ret.image.data = arg.image.data

\* ------------------------------------------------ postprocess: claims

\* a postprocess call on a tensor with no flags or a flag for every item
FlaggedCall(name) ==
    /\ op = name
    /\ arg.image.type = "pt"
    /\ \/ arg.do_denormalize = None
       \/ Len(arg.do_denormalize[1]) >= arg.image.shape[1]

\* the flag of item i (1-based) of the call
FlagOf(i) ==
    IF arg.do_denormalize = None THEN config.do_normalize ELSE arg.do_denormalize[1][i]

\* clamp(v / 2 + 0.5, 0, 1)
HalvedAndClamped(v) ==
    LET h == Rat(v[1] + v[2], 2 * v[2])
    IN  IF h[1] < 0 THEN <<0, 1>> ELSE IF h[1] > h[2] THEN <<1, 1>> ELSE h

\* the value the call owes at (n, c, h, w) (0-based) of its input
Owed(n, c, h, w) ==
    LET t == arg.image
        v == t.data[((n * t.shape[2] + c) * t.shape[3] + h) * t.shape[4] + w + 1]
    IN  IF FlagOf(n + 1) THEN HalvedAndClamped(v) ELSE v

Cells(t) ==
    (0..(t.shape[1] - 1)) \X (0..(t.shape[2] - 1))
        \X (0..(t.shape[3] - 1)) \X (0..(t.shape[4] - 1))

\* C6: base postprocess with latent output returns the tensor as it is,
\* whatever the flags; with any other output every item i holds
\* clamp(x/2+0.5, 0, 1) of the input item when its flag (do_normalize when
\* no flags are given) is true and the input item when it is false: as a
\* tensor for pt, in (N,H,W,C) layout for np (also for an unrecognized
\* format), as rounded bytes for pil.
C6_PerItemDenormalize ==
    FlaggedCall("postprocess") =>
        LET t == arg.image
            r == ret.result
        IN  IF arg.output_type = "latent"
            THEN ret.err = "none" /\ r = t
            ELSE IF arg.output_type = "pt"
            THEN /\ ret.err = "none"
                 /\ r.shape = t.shape
                 /\ \A x \in Cells(t) :
                        r.data[((x[1] * t.shape[2] + x[2]) * t.shape[3] + x[3]) * t.shape[4]
                               + x[4] + 1] = Owed(x[1], x[2], x[3], x[4])
            ELSE IF arg.output_type # "pil"
            THEN /\ ret.err = "none"
                 /\ r.shape = <<t.shape[1], t.shape[3], t.shape[4], t.shape[2]>>
                 /\ \A x \in Cells(t) :
                        r.data[((x[1] * t.shape[3] + x[3]) * t.shape[4] + x[4]) * t.shape[2]
                               + x[2] + 1] = Owed(x[1], x[2], x[3], x[4])
            ELSE ret.err = "none" =>
                 /\ Len(r) = t.shape[1]
                 /\ \A x \in Cells(t) :
                        LET v == Owed(x[1], x[2], x[3], x[4])
                        IN  v[1] >= 0 /\ v[1] <= v[2] =>
                                r[x[1] + 1].bytes[(x[3] * t.shape[4] + x[4]) * t.shape[2]
                                                  + x[2] + 1]
                                    = RoundHalfEven(<<255 * v[1], v[2]>>)

\* a batch of two came back as a tensor with its first item denormalized
\* and its second, which denormalizing would have changed, as it was
C6_Witness ==
    /\ FlaggedCall("postprocess")
    /\ arg.output_type = "pt"
    /\ arg.do_denormalize = <<<<TRUE, FALSE>>>>
    /\ ret.err = "none"
    /\ Item(ret.result, 1) # Item(arg.image, 1)
    /\ Item(ret.result, 2) = Item(arg.image, 2)
    /\ Item(arg.image, 2) # denormalize(Item(arg.image, 2))

\* a call of either adapter with an output format outside the recognized set
UnrecognizedCall(name) == FlaggedCall(name) /\ arg.output_type \notin output_types

\* C7 as stated: the depth adapter fails with UnsupportedOutputFormat on an
\* output format outside the recognized set, where the base adapter warns,
\* takes np and returns the array without error.
C7_DepthRefusesUnrecognized ==
    /\ UnrecognizedCall("postprocess_LDM3D") => ret.err = "UnsupportedOutputFormat"
    /\ UnrecognizedCall("postprocess") =>
            ret.warned /\ ret.output_type = "np" /\ ret.err = "none"

\* C7 as amended: on an output format outside the recognized set both
\* adapters warn and take np; the base adapter returns the array without
\* error, the depth adapter goes on as for np and never fails with
\* UnsupportedOutputFormat, which it raises for latent and pt alone.
C7_BothCoerce ==
    /\ UnrecognizedCall("postprocess") =>
            /\ ret.warned /\ ret.output_type = "np" /\ ret.err = "none"
            /\ ret.result.shape = <<arg.image.shape[1], arg.image.shape[3],
                                    arg.image.shape[4], arg.image.shape[2]>>
    /\ UnrecognizedCall("postprocess_LDM3D") =>
            /\ ret.warned /\ ret.output_type = "np"
            /\ ret.err = IF arg.image.shape[2] >= 6 THEN "none" ELSE "IndexError"
    /\ FlaggedCall("postprocess_LDM3D") =>
            (ret.err = "UnsupportedOutputFormat" <=> arg.output_type \in {"latent", "pt"})

\* the depth adapter took an unrecognized format for np and returned a pair
C7_Witness ==
    /\ UnrecognizedCall("postprocess_LDM3D")
    /\ ret.warned
    /\ ret.err = "none"
    /\ ret.result.depth.shape = <<arg.image.shape[1], arg.image.shape[3], arg.image.shape[4]>>

\* a depth postprocess call for np output on a tensor of c channels
DepthNpCall(c) ==
    /\ FlaggedCall("postprocess_LDM3D")
    /\ arg.output_type = "np"
    /\ arg.image.shape[2] = c

\* the pair the call returned for a tensor whose depth triple starts at
\* channel 3: channels 0-2 as (N,H,W,3), and high * 256 + low per pixel
\* with high and low the channels at the given offsets
ReturnsPair(high, low) ==
    LET t == arg.image
        r == ret.result
    IN  /\ ret.err = "none"
        /\ r.rgb.shape = <<t.shape[1], t.shape[3], t.shape[4], 3>>
        /\ r.depth.shape = <<t.shape[1], t.shape[3], t.shape[4]>>
        /\ \A x \in Cells(t) :
            /\ x[2] < 3 =>
                r.rgb.data[((x[1] * t.shape[3] + x[3]) * t.shape[4] + x[4]) * 3 + x[2] + 1]
                    = Owed(x[1], x[2], x[3], x[4])
            /\ x[2] = 0 =>
                r.depth.data[(x[1] * t.shape[3] + x[3]) * t.shape[4] + x[4] + 1]
                    = RAdd(RMul(Owed(x[1], high, x[3], x[4]), <<256, 1>>),
                           Owed(x[1], low, x[3], x[4]))

\* C8 as stated: depth postprocess with np output on an (N,4,H,W) tensor
\* completes and returns an (N,H,W,3) array of channels 0-2 and an (N,H,W)
\* depth array.
C8_DepthNpFourChannels ==
    DepthNpCall(4) =>
        /\ ret.err = "none"
        /\ ret.result.rgb.shape
            = <<arg.image.shape[1], arg.image.shape[3], arg.image.shape[4], 3>>
        /\ ret.result.depth.shape
            = <<arg.image.shape[1], arg.image.shape[3], arg.image.shape[4]>>

\* C8 as amended: on an (N,C,H,W) tensor with C >= 6 the call completes and
\* returns channels 0-2 as (N,H,W,3) and an (N,H,W) depth array with
\* channel 4 * 256 + channel 5 (entries 1 and 2 of the triple that starts
\* at channel 3) of the denormalized tensor; with fewer than 6 channels,
\* 4 among them, it fails with an index error.
C8_DepthNpSixChannels ==
    /\ \A c \in PostChans : DepthNpCall(c) =>
            IF c >= 6 THEN ReturnsPair(4, 5) ELSE ret.err = "IndexError"

\* a 6-channel tensor gave a depth array that differs from what channels
\* 3 and 4 would have given
C8_Witness ==
    /\ DepthNpCall(6)
    /\ ReturnsPair(4, 5)
    /\ ~ReturnsPair(3, 4)

\* -------------------------------------------- depth preprocess: claims

\* the rgb input is one image, array or tensor with 3 or 4 dimensions (an
\* image with 2 or 3), or a list of such objects of one type and one shape
RgbJoinable ==
    /\ op = "preprocess_LDM3D"
    /\ LET items == IF arg.rgb.type = "list" THEN arg.rgb.items ELSE <<arg.rgb>>
       IN  /\ items # <<>>
           /\ \A i \in 1..Len(items) :
                /\ items[i].type \in supported_formats
                /\ items[i] = items[1]
           /\ items[1].type # "pil" => Len(items[1].shape) \in {3, 4}

\* the batch size rgb is joined to
RgbBatch ==
    LET items == IF arg.rgb.type = "list" THEN arg.rgb.items ELSE <<arg.rgb>>
    IN  IF items[1].type # "pil" /\ Len(items[1].shape) = 4
        THEN items[1].shape[1] * Len(items) ELSE Len(items)

\* a depth image of the fixed stride or more in both dimensions
DepthImageGiven ==
    /\ arg.depth.type = "pil"
    /\ arg.depth.width >= DepthStride
    /\ arg.depth.height >= DepthStride

\* C9: for an rgb input that can be joined and a depth image, depth is
\* joined too, by the rule rgb is joined by: the call leaves a depth tensor
\* of 4 dimensions whose batch size is that of rgb (unless it refuses the
\* size of rgb).
C9_DepthInLockstep ==
    RgbJoinable /\ DepthImageGiven =>
        \/ ret.err = "SizeNotDivisible"
        \/ /\ ret.depth # NoImage
           /\ Len(ret.depth.shape) = 4
           /\ ret.depth.shape[1] = RgbBatch

====
